---- MODULE Spec2Model ----
(***************************************************************************)
(* Session controller of AutoByteGUI.py: the module-level current_proc,    *)
(* the Tk handlers run_script / stop_process / send_input, and the reader  *)
(* thread that run_script starts for every launched process.               *)
(*                                                                         *)
(* The Tk handlers run on the main thread, one at a time; each handler is  *)
(* one action.  A reader thread advances one statement at a time and is    *)
(* interleaved freely with the handlers and with the other readers.        *)
(* A Session is named by the number of the run_script call that made it.   *)
(***************************************************************************)
EXTENDS Integers, Sequences, FiniteSets, TLC

\* ------------------------------------------------------------------ bounds
MaxStarts == 2      \* run_script calls in one behaviour
MaxLines  == 1      \* lines one process writes to its stdout
MaxSends  == 2      \* send_input calls that reach a live process

Sessions  == 1..MaxStarts
NoProc    == 0      \* current_proc = None

\* Characters; a line is a sequence of them.
Whitespace == {" ", "\n"}
\* The i-th line a process prints (without the newline): "A ", "B", "A ", ...
OutputLine(i) == IF i % 2 = 1 THEN <<"A", " ">> ELSE <<"B">>
\* What input_entry.get() may return.
Texts      == {<<>>, <<"y">>}
\* Process return codes (kill() ends a Windows process with code 1).
ExitCodes  == {0, 1}

VARIABLES
    current_proc,    \* the global current_proc: NoProc or a Session
    proc,            \* proc[s]: the Popen object of Session s
    pipe,            \* pipe[s]: lines written to stdout of s and not yet read
    emitted,         \* emitted[s]: history of the line bodies s has printed
    stdin,           \* stdin[s]: characters written to the stdin of s
    files,           \* Sessions whose temp file exists on disk
    reader,          \* reader[s]: the reader thread run_script started for s
    script_buttons,  \* state of the script buttons
    stop_btn,        \* state of the Stop button
    status_label,    \* text of the status bar
    output_box,      \* output_box[s]: console messages about Session s, in order
    nStarts,         \* run_script calls so far
    nSends,          \* send_input writes attempted so far
    last             \* branch the most recent handler took

vars == <<current_proc, proc, pipe, emitted, stdin, files, reader,
          script_buttons, stop_btn, status_label, output_box,
          nStarts, nSends, last>>

ui      == <<script_buttons, stop_btn, status_label>>
procs   == <<proc, pipe, emitted, stdin>>

\* ----------------------------------------------------------------- helpers
NoThread == [pc |-> "none", it |-> NoProc, w |-> NoProc, line |-> <<>>, code |-> 0]

\* str.rstrip(): drop trailing whitespace.
RECURSIVE rstrip(_)
rstrip(s) ==
    IF s = <<>> THEN s
    ELSE IF s[Len(s)] \in Whitespace THEN rstrip(SubSeq(s, 1, Len(s) - 1))
    ELSE s

\* A message of the output console: kind, Session it is about, payload.
Msg(k, s, v) == [k |-> k, s |-> s, v |-> v]

\* write_log(output_box, message): append one message.  The console is kept
\* as one sequence for each Session; the order of messages about different
\* Sessions is not recorded.
write_log(box, m) == [box EXCEPT ![m.s] = Append(@, m)]

\* Popen.poll() is None: the process has been launched and not been reaped.
PollIsNone(p) == proc[p].st \in {"running", "dying"}

\* Mutant of ProcActive: the poll() test is forgotten.
ProcActiveNoPoll == current_proc # NoProc

\* The test of stop_process and send_input.
ProcActive == current_proc # NoProc /\ PollIsNone(current_proc)

\* reset_ui()
reset_ui ==
    /\ script_buttons' = "normal"
    /\ stop_btn' = "disabled"
    /\ status_label' = "Ready"

\* --------------------------------------------------------------------- Init
Init ==
    /\ current_proc = NoProc
    /\ proc = [s \in Sessions |-> [st |-> "none", code |-> 0]]
    /\ pipe = [s \in Sessions |-> <<>>]
    /\ emitted = [s \in Sessions |-> <<>>]
    /\ stdin = [s \in Sessions |-> <<>>]
    /\ files = {}
    /\ reader = [s \in Sessions |-> NoThread]
    /\ script_buttons = "normal"
    /\ stop_btn = "normal"
    /\ status_label = "Ready"
    /\ output_box = [s \in Sessions |-> <<>>]
    /\ nStarts = 0
    /\ nSends = 0
    /\ last = "none"

\* ----------------------------------------------------------------- handlers
\* Mutant of RunScriptFetchError: the except branch forgets reset_ui().
RunScriptFetchErrorNoReset ==
    LET s == nStarts + 1 IN
    /\ output_box' = write_log(write_log(write_log(output_box,
                        Msg("start", s, <<>>)),
                        Msg("downloading", s, <<>>)),
                        Msg("dlerror", s, <<>>))
    /\ script_buttons' = "disabled"
    /\ stop_btn' = "normal"
    /\ status_label' = "Running"
    /\ last' = "FetchError"
    /\ UNCHANGED <<current_proc, procs, files, reader>>

\* run_script(url, desc) taken through the except branch: requests.get or
\* raise_for_status raised.  url and desc select what is downloaded and the
\* text shown ("Running: desc"); nothing else depends on them.
RunScriptFetchError ==
    LET s == nStarts + 1 IN
    /\ output_box' = write_log(write_log(write_log(output_box,
                        Msg("start", s, <<>>)),
                        Msg("downloading", s, <<>>)),
                        Msg("dlerror", s, <<>>))
    /\ reset_ui
    /\ last' = "FetchError"
    /\ UNCHANGED <<current_proc, procs, files, reader>>

\* run_script(url, desc) taken through the except branch after the download:
\* tmp.write or tmp.close raised, and the file made with delete=False stays.
RunScriptWriteError ==
    LET s == nStarts + 1 IN
    /\ output_box' = write_log(write_log(write_log(output_box,
                        Msg("start", s, <<>>)),
                        Msg("downloading", s, <<>>)),
                        Msg("dlerror", s, <<>>))
    /\ files' = files \cup {s}
    /\ reset_ui
    /\ last' = "WriteError"
    /\ UNCHANGED <<current_proc, procs, reader>>

\* run_script(url, desc) with Popen raising: the exception
\* leaves run_script before current_proc is assigned and before reset_ui.
RunScriptLaunchError ==
    LET s == nStarts + 1 IN
    /\ output_box' = write_log(write_log(write_log(output_box,
                        Msg("start", s, <<>>)),
                        Msg("downloading", s, <<>>)),
                        Msg("saved", s, <<>>))
    /\ files' = files \cup {s}
    /\ script_buttons' = "disabled"
    /\ stop_btn' = "normal"
    /\ status_label' = "Running"
    /\ last' = "LaunchError"
    /\ UNCHANGED <<current_proc, procs, reader>>

\* run_script(url, desc) with everything succeeding.
RunScriptLaunch ==
    LET s == nStarts + 1 IN
    /\ output_box' = write_log(write_log(write_log(output_box,
                        Msg("start", s, <<>>)),
                        Msg("downloading", s, <<>>)),
                        Msg("saved", s, <<>>))
    /\ files' = files \cup {s}
    /\ script_buttons' = "disabled"
    /\ stop_btn' = "normal"
    /\ status_label' = "Running"
    /\ current_proc' = s
    /\ proc' = [proc EXCEPT ![s] = [st |-> "running", code |-> 0]]
    /\ reader' = [reader EXCEPT ![s] = [NoThread EXCEPT !.pc = "iter"]]
    /\ last' = "Started"
    /\ UNCHANGED <<pipe, emitted, stdin>>

\* A click on an enabled script button.
run_script ==
    /\ script_buttons = "normal"
    /\ nStarts < MaxStarts
    /\ nStarts' = nStarts + 1
    /\ \/ RunScriptLaunch
       \/ RunScriptLaunchError
       \/ RunScriptWriteError
       \/ RunScriptFetchError
    /\ UNCHANGED <<nSends>>

\* Mutant of stop_process: reset_ui() is called outside the if.
stop_process_ResetAlways ==
    /\ stop_btn = "normal"
    /\ IF ProcActive
       THEN /\ proc' = [proc EXCEPT ![current_proc].st = "dying"]
            /\ output_box' = write_log(output_box, Msg("stopped", current_proc, <<>>))
            /\ last' = "Stopped"
       ELSE /\ last' = "StopNotRunning"
            /\ UNCHANGED <<proc, output_box>>
    /\ reset_ui
    /\ UNCHANGED <<current_proc, pipe, emitted, stdin, files, reader,
                   nStarts, nSends>>

\* stop_process(): a click on the enabled Stop button.
stop_process ==
    /\ stop_btn = "normal"
    /\ IF ProcActive
       THEN /\ proc' = [proc EXCEPT ![current_proc].st = "dying"]
            /\ output_box' = write_log(output_box, Msg("stopped", current_proc, <<>>))
            /\ reset_ui
            /\ last' = "Stopped"
       ELSE /\ last' = "StopNotRunning"
            /\ UNCHANGED <<proc, output_box, ui>>
    /\ UNCHANGED <<current_proc, pipe, emitted, stdin, files, reader,
                   nStarts, nSends>>

\* Mutant of SendWrite: the text is written without the newline.
SendWriteNoNewline(text) ==
    /\ stdin' = [stdin EXCEPT ![current_proc] = @ \o text]
    /\ output_box' = write_log(output_box, Msg("sent", current_proc, text))
    /\ last' = "Sent"

\* send_input(), write and flush succeeding.
SendWrite(text) ==
    /\ stdin' = [stdin EXCEPT ![current_proc] = @ \o text \o <<"\n">>]
    /\ output_box' = write_log(output_box, Msg("sent", current_proc, text))
    /\ last' = "Sent"

\* Mutant of SendError: the exception is not caught, nothing is logged.
SendErrorNotCaught ==
    /\ last' = "SendError"
    /\ UNCHANGED <<stdin, output_box>>

\* send_input(), write or flush raising.
SendError ==
    /\ output_box' = write_log(output_box, Msg("senderr", current_proc, <<>>))
    /\ last' = "SendError"
    /\ UNCHANGED stdin

\* send_input(): Return in the entry, or a click on Send; text is what
\* input_entry.get() returns, and the entry is emptied at the end.
send_input ==
    /\ IF ProcActive
       THEN /\ nSends < MaxSends
            /\ nSends' = nSends + 1
            /\ \/ \E text \in Texts : SendWrite(text)
               \/ SendError
       ELSE /\ last' = "SendNotRunning"
            /\ UNCHANGED <<stdin, output_box, nSends>>
    /\ UNCHANGED <<current_proc, proc, pipe, emitted, files, reader, ui, nStarts>>

\* ---------------------------------------------------------------- processes
\* A running process prints one line on its merged stdout/stderr.
ProcEmit(p) ==
    /\ proc[p].st = "running"
    /\ Len(emitted[p]) < MaxLines
    /\ LET b == OutputLine(Len(emitted[p]) + 1) IN
          /\ pipe' = [pipe EXCEPT ![p] = Append(@, b \o <<"\n">>)]
          /\ emitted' = [emitted EXCEPT ![p] = Append(@, b)]
    /\ UNCHANGED <<current_proc, proc, stdin, files, reader, ui, output_box,
                   nStarts, nSends, last>>

\* A process ends, by itself or after kill(), and closes its stdout.
ProcExit(p) ==
    /\ PollIsNone(p)
    /\ \E c \in ExitCodes : proc' = [proc EXCEPT ![p] = [st |-> "exited", code |-> c]]
    /\ UNCHANGED <<current_proc, pipe, emitted, stdin, files, reader, ui,
                   output_box, nStarts, nSends, last>>

\* ------------------------------------------------------------ reader thread
\* `for line in current_proc.stdout`: the global is read when the loop starts.
ReaderIter(s) ==
    /\ reader[s].pc = "iter"
    /\ reader' = [reader EXCEPT ![s].it = current_proc, ![s].pc = "loop"]
    /\ UNCHANGED <<current_proc, procs, files, ui, output_box,
                   nStarts, nSends, last>>

\* The iterator yields the next line of the stream.
ReaderRead(s) ==
    /\ reader[s].pc = "loop"
    /\ pipe[reader[s].it] # <<>>
    /\ reader' = [reader EXCEPT ![s].line = Head(pipe[reader[s].it]),
                                ![s].pc = "log_line"]
    /\ pipe' = [pipe EXCEPT ![reader[s].it] = Tail(@)]
    /\ UNCHANGED <<current_proc, proc, emitted, stdin, files, ui, output_box,
                   nStarts, nSends, last>>

\* write_log(output_box, line.rstrip())
ReaderLogLine(s) ==
    /\ reader[s].pc = "log_line"
    /\ output_box' = write_log(output_box,
                        Msg("line", reader[s].it, rstrip(reader[s].line)))
    /\ reader' = [reader EXCEPT ![s].line = <<>>, ![s].pc = "loop"]
    /\ UNCHANGED <<current_proc, procs, files, ui,
                   nStarts, nSends, last>>

\* The stream is at end of file: the process has exited and nothing is left.
ReaderEof(s) ==
    /\ reader[s].pc = "loop"
    /\ pipe[reader[s].it] = <<>>
    /\ proc[reader[s].it].st = "exited"
    /\ reader' = [reader EXCEPT ![s].pc = "wait"]
    /\ UNCHANGED <<current_proc, procs, files, ui, output_box,
                   nStarts, nSends, last>>

\* `current_proc.wait()` is called: the global is read again.
ReaderWaitCall(s) ==
    /\ reader[s].pc = "wait"
    /\ reader' = [reader EXCEPT ![s].w = current_proc, ![s].pc = "waiting"]
    /\ UNCHANGED <<current_proc, procs, files, ui, output_box,
                   nStarts, nSends, last>>

\* wait() returns the return code of the process it was called on.
ReaderWaitReturn(s) ==
    /\ reader[s].pc = "waiting"
    /\ proc[reader[s].w].st = "exited"
    /\ reader' = [reader EXCEPT ![s].code = proc[reader[s].w].code,
                                ![s].pc = "remove"]
    /\ UNCHANGED <<current_proc, procs, files, ui, output_box,
                   nStarts, nSends, last>>

\* os.remove(tmp.name) deletes the temp file of this thread's own run_script.
ReaderRemove(s) ==
    /\ reader[s].pc = "remove"
    /\ s \in files
    /\ files' = files \ {s}
    /\ reader' = [reader EXCEPT ![s].pc = "completed"]
    /\ UNCHANGED <<current_proc, procs, ui, output_box,
                   nStarts, nSends, last>>

\* os.remove(tmp.name) raises OSError: the exception ends the thread.
ReaderRemoveError(s) ==
    /\ reader[s].pc = "remove"
    /\ reader' = [reader EXCEPT ![s] = [NoThread EXCEPT !.pc = "crashed"]]
    /\ UNCHANGED <<current_proc, procs, files, ui, output_box,
                   nStarts, nSends, last>>

\* write_log(output_box, f"[Completed] Exit code: {code}")
ReaderCompleted(s) ==
    /\ reader[s].pc = "completed"
    /\ output_box' = write_log(output_box, Msg("completed", s, <<reader[s].code>>))
    /\ reader' = [reader EXCEPT ![s].pc = "reset"]
    /\ UNCHANGED <<current_proc, procs, files, ui,
                   nStarts, nSends, last>>

\* reset_ui(), the last statement of reader().
ReaderReset(s) ==
    /\ reader[s].pc = "reset"
    /\ reset_ui
    /\ reader' = [reader EXCEPT ![s] = [NoThread EXCEPT !.pc = "done"]]
    /\ UNCHANGED <<current_proc, procs, files, output_box,
                   nStarts, nSends, last>>

\* reader(): the next statement of the reader thread of Session s.
reader_thread(s) ==
    \/ ReaderIter(s)
    \/ ReaderRead(s)
    \/ ReaderLogLine(s)
    \/ ReaderEof(s)
    \/ ReaderWaitCall(s)
    \/ ReaderWaitReturn(s)
    \/ ReaderRemove(s)
    \/ ReaderRemoveError(s)
    \/ ReaderCompleted(s)
    \/ ReaderReset(s)

\* --------------------------------------------------------------------- Next
Next ==
    \/ run_script
    \/ stop_process
    \/ send_input
    \/ \E p \in Sessions : ProcEmit(p)
    \/ \E p \in Sessions : ProcExit(p)
    \/ \E s \in Sessions : ReaderIter(s)
    \/ \E s \in Sessions : ReaderRead(s)
    \/ \E s \in Sessions : ReaderLogLine(s)
    \/ \E s \in Sessions : ReaderEof(s)
    \/ \E s \in Sessions : ReaderWaitCall(s)
    \/ \E s \in Sessions : ReaderWaitReturn(s)
    \/ \E s \in Sessions : ReaderRemove(s)
    \/ \E s \in Sessions : ReaderRemoveError(s)
    \/ \E s \in Sessions : ReaderCompleted(s)
    \/ \E s \in Sessions : ReaderReset(s)

Spec == Init /\ [][Next]_vars

\* ------------------------------------------------------- reading the state
\* The console holds a message of kind k about Session s.
Has(s, k) == \E i \in DOMAIN output_box[s] : output_box[s][i].k = k

\* The lines of process p shown on the console, in the order shown.
Delivered(p) ==
    LET shown == SelectSeq(output_box[p], LAMBDA m : m.k = "line")
    IN  [i \in 1..Len(shown) |-> shown[i].v]

IsPrefix(a, b) == Len(a) <= Len(b) /\ a = SubSeq(b, 1, Len(a))

\* Session s was launched and its terminal handling has not finished.
SessionRunning(s) ==
    /\ proc[s].st # "none"
    /\ reader[s].pc \notin {"done", "crashed"}

\* The controller is idle: no process was ever started, or the last one
\* has exited.
Idle == current_proc = NoProc \/ proc[current_proc].st = "exited"

\* The kinds of console message that report an error.
ErrorKinds == {"dlerror", "senderr"}

\* This step is a call of run_script.
StartCalled == nStarts' = nStarts + 1

\* ------------------------------------------------------------------ claims
\* C1: a Start while a Session is Running (launched, terminal status not yet
\* reached) is rejected: no process is created, no temp file is written, and
\* current_proc and the first Session's process are left as they were.
C1_StartWhileRunningRejected ==
    [][(StartCalled /\ \E s \in Sessions : SessionRunning(s))
          => UNCHANGED <<proc, files, current_proc, reader>>]_vars

\* C2: in every reachable state at most one launched process has not yet
\* exited.
C2_AtMostOneRunning ==
    Cardinality({s \in Sessions : PollIsNone(s)}) <= 1

\* C3: once a Session's terminal status is on the console ("[Stopped]" or
\* "[Completed]"), that Session's temp file no longer exists.
C3_NoFileAtTerminalStatus ==
    \A s \in Sessions :
        (Has(s, "stopped") \/ Has(s, "completed")) => s \notin files

\* C4: the cleanup of a stopped Session is done once: the console never
\* holds both the "[Stopped]" notification of stop_process and the
\* "[Completed]" notification of the reader thread for one Session.
C4_CleanupOnce ==
    \A s \in Sessions : ~(Has(s, "stopped") /\ Has(s, "completed"))

\* C5: the lines shown for a process are, at every moment, exactly the first
\* lines it printed, in the order printed.
C5_LinesAsEmitted ==
    \A p \in Sessions : IsPrefix(Delivered(p), emitted[p])

C8_FetchError ==
    [][/\ (StartCalled /\ last' = "FetchError") =>
            /\ UNCHANGED <<proc, current_proc, reader, files>>
            /\ output_box'[nStarts'][Len(output_box'[nStarts'])].k = "dlerror"
            /\ script_buttons' = "normal"
            /\ stop_btn' = "disabled"
       /\ (proc' # proc /\ \E s \in Sessions : proc[s].st = "none" /\ proc'[s].st # "none")
            => StartCalled]_vars

\* The first download failed and the next click was accepted and launched.
C8_Witness ==
    /\ Has(1, "dlerror")
    /\ 1 \notin files
    /\ nStarts = MaxStarts
    /\ last = "Started"

\* C9: when Popen raises, the error is on the console, the script buttons
\* are enabled and Stop is disabled.
C9_LaunchErrorRecovers ==
    [][(StartCalled /\ last' = "LaunchError") =>
            /\ output_box'[nStarts'][Len(output_box'[nStarts'])].k \in ErrorKinds
            /\ script_buttons' = "normal"
            /\ stop_btn' = "disabled"]_vars

\* C10: a reader thread that has ended, also after os.remove failed, has
\* put the Session's "[Completed]" notification on the console.
C10_RemoveErrorStillCompletes ==
    \A s \in Sessions :
        reader[s].pc \in {"done", "crashed"} => Has(s, "completed")

\* C11: a send_input whose write fails while the process has not exited
\* reports the failure as the next console message of that Session and
\* changes nothing else: processes, stdin streams, current_proc, temp files,
\* threads and buttons are as before, so later handlers see the state they
\* would have seen without it.
C11_SendErrorReported ==
    [][(send_input /\ last' = "SendError") =>
          /\ ~Idle
          /\ Len(output_box'[current_proc]) = Len(output_box[current_proc]) + 1
          /\ output_box'[current_proc][Len(output_box'[current_proc])].k = "senderr"
          /\ \A s \in Sessions \ {current_proc} : output_box'[s] = output_box[s]
          /\ UNCHANGED <<proc, pipe, stdin, current_proc, files, reader, ui, nStarts>>]_vars

\* A write to a process that was killed and has not yet exited failed and
\* was reported.
C11_Witness ==
    /\ last = "SendError"
    /\ current_proc # NoProc
    /\ proc[current_proc].st = "dying"
    /\ Has(current_proc, "senderr")

\* C12: the reader thread of Session s, once the stream of s that it drained
\* is closed, holds the exit code of the process of s before it deletes the
\* temp file of s, has
\* deleted that file before it writes "[Completed]", and writes "[Completed]"
\* before it resets the UI.
C12_DrainOrder ==
    \A s \in Sessions :
        /\ (reader[s].it = s /\ reader[s].pc \in {"remove", "completed", "reset"}) =>
              (proc[s].st = "exited" /\ reader[s].code = proc[s].code)
        /\ reader[s].pc \in {"completed", "reset"} => s \notin files
        /\ Has(s, "completed") => reader[s].pc \in {"reset", "done"}

\* C13: the temp file of a Session whose own process has ended is deleted
\* whatever a later Session does: as long as the file of s exists after the
\* process of s has exited, the reader thread that drains the stream of s
\* can take its next step without waiting for anything else.
C13_FileDeletedIndependently ==
    \A s \in Sessions :
        (s \in files /\ proc[s].st = "exited" /\ reader[s].it = s)
            => ENABLED reader_thread(s)

\* C14: a send_input whose write succeeds while a process is running appends
\* the submitted text (the one echoed as "> text") and one newline to the
\* end of the stdin of the current process, after everything sent before,
\* touches no other stdin, and leaves the processes, current_proc, the temp
\* files, the reader threads and the buttons and status as they were.
C14_SendAppendsLine ==
    [][(send_input /\ last' = "Sent") =>
          LET box == output_box'[current_proc] IN
          /\ ~Idle
          /\ Len(box) = Len(output_box[current_proc]) + 1
          /\ box[Len(box)].k = "sent"
          /\ stdin'[current_proc] =
                 stdin[current_proc] \o box[Len(box)].v \o <<"\n">>
          /\ \A s \in Sessions \ {current_proc} : stdin'[s] = stdin[s]
          /\ UNCHANGED <<proc, pipe, current_proc, files, reader, ui, nStarts>>]_vars

\* Two different texts were sent to one running process, the second after the
\* first.
C14_Witness ==
    /\ last = "Sent"
    /\ current_proc # NoProc
    /\ proc[current_proc].st = "running"
    /\ stdin[current_proc] = <<"y", "\n", "\n">>

\* C15: a reader thread blocked in wait() waits on the process of its own
\* Session, and the exit code shown in the "[Completed]" line of a Session is
\* the exit code of that Session's process.
C15_OwnExitCode ==
    \A s \in Sessions :
        /\ reader[s].pc = "waiting" => reader[s].w = s
        /\ \A i \in DOMAIN output_box[s] :
               output_box[s][i].k = "completed" =>
                   output_box[s][i].v = <<proc[s].code>>

\* C16: while a launched process is alive and has not been killed, the Stop
\* button is enabled and current_proc refers to that process.
C16_RunningCanBeStopped ==
    \A s \in Sessions :
        proc[s].st = "running" => (stop_btn = "normal" /\ current_proc = s)

====
